---------------------------- MODULE Spec2Model ----------------------------
(***************************************************************************)
(* Model of the three HTTP messaging back ends of chat-v2:                 *)
(*   "server"   src/server.js          text + upload, newest first, capped *)
(*   "part_000" src/unnamed/part_000   text only, newest first, capped     *)
(*   "part_001" src/unnamed/part_001   text only, append order, uncapped   *)
(* One process runs one of the programs; `variant` says which.  Every      *)
(* handler runs to completion on the node event loop, so one handler is    *)
(* one action.                                                             *)
(***************************************************************************)
EXTENDS Integers, Sequences, FiniteSets, TLC

VARIABLES
    variant,    \* which of the three programs runs
    messages,   \* `let messages = []` of the running program
    uploadDir,  \* names of the files in uploads/ (server.js only)
    uuid,       \* number of requests that drew from uuidv4() so far
    now,        \* wall clock in milliseconds, as read by new Date()
    response,   \* the answer to the request handled last: status and JSON body
    sent,       \* history: ids of the messages answered with 201, in send order
    deleted,    \* history: TRUE once a DELETE was answered with success
    since,      \* polling client: newest timestamp received so far
    received    \* polling client: ids received so far, in order of receipt

vars == <<variant, messages, uploadDir, uuid, now, response,
          sent, deleted, since, received>>

clientVars == <<since, received>>

-----------------------------------------------------------------------------
(* Bounds of the model.  MAX_MESSAGES (1000 in the programs), DEFAULT_LIMIT  *)
(* (100 in server.js) and P0_DEFAULT_LIMIT (50 in part_000) are scaled down  *)
(* so that eviction and pagination happen; the limits stay below the cap.    *)

MaxUuid == 4
MaxClock == 1
MAX_MESSAGES == 2
DEFAULT_LIMIT == 1
P0_DEFAULT_LIMIT == 1

(* Program constants. *)
TEXT_MAX_LENGTH == 2000
P0_TEXT_MAX_LENGTH == 500
UPLOAD_TEXT_MAX_LENGTH == 500

Variants == {"server", "part_000", "part_001"}
Capped == {"server", "part_000"}

-----------------------------------------------------------------------------
(* JavaScript values of a request field: a string (a sequence of           *)
(* one-character strings), undefined, or a JSON value that is not a string. *)

Undefined == [type |-> "undefined"]
NotAString == [type |-> "number"]
Str(s) == [type |-> "string", val |-> s]

Repeat(c, n) == [i \in 1..n |-> c]

IsString(v) == v.type = "string"

(* !v is ~Truthy(v) *)
Truthy(v) == IF IsString(v) THEN Len(v.val) > 0 ELSE v.type = "number"

IsWhitespace(c) == c \in {" ", "\t", "\n"}

RECURSIVE TrimStart(_)
TrimStart(s) ==
    IF Len(s) > 0 /\ IsWhitespace(Head(s)) THEN TrimStart(Tail(s)) ELSE s

RECURSIVE TrimEnd(_)
TrimEnd(s) ==
    IF Len(s) > 0 /\ IsWhitespace(s[Len(s)])
    THEN TrimEnd(SubSeq(s, 1, Len(s) - 1)) ELSE s

Trim(s) == TrimEnd(TrimStart(s))

LowerChar(c) ==
    CASE c = "S" -> "s" [] c = "P" -> "p" [] c = "A" -> "a" [] c = "M" -> "m"
      [] OTHER -> c

ToLowerCase(s) == [i \in 1..Len(s) |-> LowerChar(s[i])]

Includes(s, w) ==
    \E i \in 0..(Len(s) - Len(w)) : SubSeq(s, i + 1, i + Len(w)) = w

inappropriateWords ==
    IF variant = "part_000"
    THEN {<<"s","p","a","m">>, <<"t","e","s","t","1","2","3">>}
    ELSE {<<"s","p","a","m">>}

containsInappropriate(text) ==
    IF variant = "server" /\ Len(text) = 0 THEN FALSE
    ELSE \E w \in inappropriateWords : Includes(ToLowerCase(text), w)

(* Array.prototype.slice(start, end) *)
Max(a, b) == IF a > b THEN a ELSE b
Min(a, b) == IF a < b THEN a ELSE b

RelIndex(k, len) == IF k < 0 THEN Max(len + k, 0) ELSE Min(k, len)

Slice(arr, start, end) ==
    SubSeq(arr, RelIndex(start, Len(arr)) + 1, RelIndex(end, Len(arr)))

(* Mutants of unshift: the new element put last; the stored elements        *)
(* re-stamped with the new element's timestamp.                              *)
UnshiftAtEnd(arr, x) == Append(arr, x)
UnshiftRestamp(arr, x) ==
    <<x>> \o [i \in 1..Len(arr) |-> [arr[i] EXCEPT !.timestamp = x.timestamp]]

(* Array.prototype.unshift(x) and push(x) *)
Unshift(arr, x) == <<x>> \o arr
Push(arr, x) == Append(arr, x)

(* Array.prototype.findIndex, 0-based, -1 when absent *)
FindIndex(arr, id) ==
    IF \E i \in 1..Len(arr) : arr[i].id = id
    THEN (CHOOSE i \in 1..Len(arr) :
             arr[i].id = id /\ \A j \in 1..(i - 1) : arr[j].id # id) - 1
    ELSE -1

(* Mutant of splice: splice(index), which removes up to the end *)
SpliceToEnd(arr, index) == SubSeq(arr, 1, RelIndex(index, Len(arr)))

(* Array.prototype.splice(index, 1): the array after the removal *)
Splice(arr, index) ==
    LET k == RelIndex(index, Len(arr))
    IN  SubSeq(arr, 1, k) \o SubSeq(arr, k + 2, Len(arr))

(* Array.prototype.filter(m => m.id !== id) *)
RECURSIVE FilterNotId(_, _)
FilterNotId(arr, id) ==
    IF arr = <<>> THEN <<>>
    ELSE IF Head(arr).id # id
         THEN <<Head(arr)>> \o FilterNotId(Tail(arr), id)
         ELSE FilterNotId(Tail(arr), id)

(* new Date().toISOString() and new Date(string): the ISO text of a         *)
(* millisecond count, and the Date of a text (Invalid Date unless ISO).      *)
ToISOString(ms) == <<"ISO", ms>>
InvalidDate == [valid |-> FALSE]
DateParse(str) ==
    IF Len(str) = 2 /\ str[1] = "ISO" THEN [valid |-> TRUE, ms |-> str[2]]
    ELSE InvalidDate
(* a > b on two Dates: false as soon as one is Invalid Date (NaN) *)
DateGreater(a, b) == a.valid /\ b.valid /\ a.ms > b.ms

(* parseInt(q) || dflt on a query parameter: a numeral is <<"NUM", n>> *)
Numeral(n) == Str(<<"NUM", n>>)
ParseIntOr(q, dflt) ==
    IF IsString(q) /\ Len(q.val) = 2 /\ q.val[1] = "NUM" /\ q.val[2] # 0
    THEN q.val[2] ELSE dflt

-----------------------------------------------------------------------------
(* Inputs *)

LongText == Repeat("a", TEXT_MAX_LENGTH + 1)
P0LongText == Repeat("a", P0_TEXT_MAX_LENGTH + 1)
UploadLongText == Repeat("a", UPLOAD_TEXT_MAX_LENGTH + 1)

(* part_001 has no length limit, so it gets no over-long text *)
Texts ==
    { Undefined, NotAString, Str(<<>>), Str(<<" ">>), Str(<<"a">>),
      Str(<<" ", "a", " ">>), Str(<<"S", "p", "a", "m">>) }
    \cup (IF variant = "server" THEN {Str(LongText)}
          ELSE IF variant = "part_000" THEN {Str(P0LongText)} ELSE {})

Froms == { Undefined, Str(<<>>) }

NoFile == [present |-> FALSE]
Png(size) == [present |-> TRUE, ext |-> ".png", mimetype |-> "image/png",
              size |-> size]
Exe == [present |-> TRUE, ext |-> ".exe",
        mimetype |-> "application/octet-stream", size |-> 1]

MAX_FILE_SIZE == 10485760

Files == { NoFile, Png(1), Png(MAX_FILE_SIZE + 1), Exe }

UploadTexts ==
    { Undefined, Str(<<" ">>), Str(<<"S", "p", "a", "m">>), Str(UploadLongText) }

Ids == 1..(MaxUuid + 1)

(* limit, offset, since of the list requests *)
Queries ==
    { <<Undefined, Undefined, Undefined>>, <<Numeral(2), Numeral(1), Undefined>>,
      <<Numeral(2), Undefined, Str(ToISOString(0))>>,
      <<Undefined, Undefined, Str(<<"x">>)>> }

-----------------------------------------------------------------------------
(* Views of the stored list *)

IdsOf(arr) == { arr[i].id : i \in 1..Len(arr) }
HasFile(m) == "file" \in DOMAIN m
BodyOf(m) == IF variant = "part_001" THEN m.body ELSE m.message
StampOf(m) == IF variant = "part_001" THEN m.sentAt ELSE m.timestamp

(* res.status(status).json({ error: <text> }) *)
Err(status) == [status |-> status, body |-> [error |-> "message"]]

Init ==
    /\ variant \in Variants
    /\ messages = <<>>
    /\ uploadDir = {}
    /\ uuid = 0
    /\ now = 0
    /\ response = [status |-> 0]
    /\ sent = <<>>
    /\ deleted = FALSE
    /\ since = Undefined
    /\ received = <<>>

(* the clock read by new Date(): it does not run backwards, and two reads   *)
(* may fall in the same millisecond                                          *)
ClockReads == now..Min(now + 1, MaxClock)

(* Mutant of the cap: slice(-MAX_MESSAGES), which drops the newest *)
CapKeepOldest(arr) ==
    IF Len(arr) > MAX_MESSAGES THEN Slice(arr, 0 - MAX_MESSAGES, Len(arr)) ELSE arr

(* messages.length > MAX_MESSAGES => messages.slice(0, MAX_MESSAGES) *)
Cap(arr) == IF Len(arr) > MAX_MESSAGES THEN Slice(arr, 0, MAX_MESSAGES) ELSE arr

(* the elements cut off by the cap: messages.slice(MAX_MESSAGES) *)
Removed(arr) ==
    IF Len(arr) > MAX_MESSAGES THEN Slice(arr, MAX_MESSAGES, Len(arr)) ELSE <<>>

FilesOf(arr) == { arr[i].file.filename : i \in { j \in 1..Len(arr) : HasFile(arr[j]) } }

(* the express-rate-limit middleware in front of the POST handlers answers  *)
(* 429 by itself once the window's quota is used up                          *)
RateLimited ==
    /\ variant \in Capped
    /\ response' = Err(429)
    /\ UNCHANGED <<variant, messages, uploadDir, uuid, now, sent, deleted,
                   clientVars>>

(* POST /api/messages of server.js and part_000 *)
PostApiMessages(message) ==
    /\ variant \in Capped
    /\ LET maxLen == IF variant = "server" THEN TEXT_MAX_LENGTH
                     ELSE P0_TEXT_MAX_LENGTH
       IN
       IF ~Truthy(message) \/ ~IsString(message)
       THEN /\ response' = Err(400)
            /\ UNCHANGED <<messages, uuid, now, sent>>
       ELSE IF Len(message.val) < 1 \/ Len(message.val) > maxLen
       THEN /\ response' = Err(400)
            /\ UNCHANGED <<messages, uuid, now, sent>>
       ELSE IF containsInappropriate(message.val)
       THEN /\ response' = Err(400)
            /\ UNCHANGED <<messages, uuid, now, sent>>
       ELSE \E t \in ClockReads :
            /\ uuid < MaxUuid
            /\ LET base == [id |-> uuid + 1, message |-> Trim(message.val),
                            timestamp |-> ToISOString(t)]
                   newMessage == IF variant = "server"
                                 THEN base @@ [type |-> "text"]
                                 ELSE base
               IN /\ messages' = Cap(Unshift(messages, newMessage))
                  /\ sent' = Append(sent, newMessage.id)
                  /\ response' = [status |-> 201,
                                  body |-> IF variant = "server"
                                           THEN newMessage
                                           ELSE [id |-> newMessage.id]]
            /\ uuid' = uuid + 1
            /\ now' = t
    /\ UNCHANGED <<variant, uploadDir, deleted, clientVars>>

(* allowedTypes.test(s) of the multer fileFilter, on the names the inputs use *)
AllowedType(s) == s \in {".png", "image/png"}

(* /\.(jpg|jpeg|png|gif|webp)$/ and /\.(mp4|webm)$/ on the original name *)
FileTypeOf(ext) ==
    IF ext \in {".jpg", ".jpeg", ".png", ".gif", ".webp"} THEN "image"
    ELSE IF ext \in {".mp4", ".webm"} THEN "video" ELSE "file"

(* what leaves the upload directory when the cap cuts `arr` *)
UnlinkRemoved(dir, arr) == dir \ FilesOf(Removed(arr))

(* POST /api/messages/upload of server.js: multer, then the handler *)
PostUpload(file, message) ==
    /\ variant = "server"
    /\ IF ~file.present
       THEN /\ response' = Err(400)
            /\ UNCHANGED <<messages, uploadDir, uuid, now, sent>>
       ELSE IF ~(AllowedType(file.ext) /\ AllowedType(file.mimetype))
       THEN /\ response' = Err(500)
            /\ UNCHANGED <<messages, uploadDir, uuid, now, sent>>
       ELSE IF file.size > MAX_FILE_SIZE
       THEN \* multer removes the partial file; its name is seen nowhere
            /\ response' = Err(500)
            /\ UNCHANGED <<messages, uploadDir, uuid, now, sent>>
       ELSE \* the file name and the message id are two uuidv4() values; they
            \* are never compared, and both are numbered by the request
            LET filename == uuid + 1
                text == IF Truthy(message) THEN message.val ELSE <<>>
            IN
            IF Len(text) > UPLOAD_TEXT_MAX_LENGTH
            THEN \* returns without unlinking the file multer wrote
                 /\ uuid < MaxUuid
                 /\ uuid' = uuid + 1
                 /\ uploadDir' = uploadDir \cup {filename}
                 /\ response' = Err(400)
                 /\ UNCHANGED <<messages, now, sent>>
            ELSE IF containsInappropriate(text)
            THEN \* fs.unlinkSync(req.file.path): the file is written and
                 \* removed, its name is seen nowhere
                 /\ uploadDir' = (uploadDir \cup {filename}) \ {filename}
                 /\ response' = Err(400)
                 /\ UNCHANGED <<messages, uuid, now, sent>>
            ELSE \E t \in ClockReads :
                 /\ uuid < MaxUuid
                 /\ LET newMessage ==
                           [id |-> uuid + 1, type |-> FileTypeOf(file.ext),
                            message |-> Trim(text),
                            file |-> [filename |-> filename,
                                      originalName |-> file.ext,
                                      size |-> file.size,
                                      mimetype |-> file.mimetype],
                            timestamp |-> ToISOString(t)]
                        all == Unshift(messages, newMessage)
                    IN /\ messages' = Cap(all)
                       /\ uploadDir' =
                            UnlinkRemoved(uploadDir \cup {filename}, all)
                       /\ sent' = Append(sent, newMessage.id)
                       /\ response' = [status |-> 201, body |-> newMessage]
                 /\ uuid' = uuid + 1
                 /\ now' = t
    /\ UNCHANGED <<variant, deleted, clientVars>>

(* the body of GET /api/messages *)
ListBody(limitQ, offsetQ, sinceQ) ==
    LET limit == ParseIntOr(limitQ, IF variant = "server" THEN DEFAULT_LIMIT
                                    ELSE P0_DEFAULT_LIMIT)
        offset == ParseIntOr(offsetQ, 0)
        filteredMessages ==
            IF variant = "server" /\ Truthy(sinceQ)
            THEN SelectSeq(messages, LAMBDA m :
                     DateGreater(DateParse(m.timestamp), DateParse(sinceQ.val)))
            ELSE messages
        page == Slice(filteredMessages, offset, offset + limit)
    IN  IF variant = "server"
        THEN [messages |-> page, total |-> Len(messages), limit |-> limit,
              offset |-> offset, hasNew |-> Len(filteredMessages) > 0]
        ELSE [messages |-> page, total |-> Len(messages), limit |-> limit,
              offset |-> offset]

(* Mutant of GET /api/messages: splice(offset, limit) in place of slice *)
GetApiMessagesSplice(limitQ, offsetQ, sinceQ) ==
    /\ variant \in Capped
    /\ variant = "part_000" => sinceQ = Undefined
    /\ response' = [status |-> 200, body |-> ListBody(limitQ, offsetQ, sinceQ)]
    /\ messages' = SelectSeq(messages, LAMBDA m :
                       \A i \in 1..Len(response'.body.messages) :
                           response'.body.messages[i].id # m.id)
    /\ UNCHANGED <<variant, uploadDir, uuid, now, sent, deleted, clientVars>>

(* GET /api/messages of server.js and part_000 *)
GetApiMessages(limitQ, offsetQ, sinceQ) ==
    /\ variant \in Capped
    /\ variant = "part_000" => sinceQ = Undefined
    /\ response' = [status |-> 200, body |-> ListBody(limitQ, offsetQ, sinceQ)]
    /\ UNCHANGED <<variant, messages, uploadDir, uuid, now, sent, deleted,
                   clientVars>>

(* Mutant of DELETE /api/messages/:id: no test of messageIndex === -1 *)
DeleteApiMessageUnchecked(id) ==
    /\ variant = "server"
    /\ LET messageIndex == FindIndex(messages, id)
       IN /\ messages' = Splice(messages, messageIndex)
          /\ response' = [status |-> 200, body |-> [success |-> TRUE]]
    /\ deleted' = TRUE
    /\ UNCHANGED <<variant, uploadDir, uuid, now, sent, clientVars>>

(* DELETE /api/messages/:id of server.js *)
DeleteApiMessage(id) ==
    /\ variant = "server"
    /\ LET messageIndex == FindIndex(messages, id)
       IN IF messageIndex = -1
          THEN /\ response' = Err(404)
               /\ UNCHANGED <<messages, uploadDir, deleted>>
          ELSE LET message == messages[messageIndex + 1]
               IN /\ uploadDir' = IF HasFile(message)
                                  THEN uploadDir \ {message.file.filename}
                                  ELSE uploadDir
                  /\ messages' = Splice(messages, messageIndex)
                  /\ deleted' = TRUE
                  /\ response' = [status |-> 200, body |-> [success |-> TRUE]]
    /\ UNCHANGED <<variant, uuid, now, sent, clientVars>>

(* GET /api/stats of server.js and part_000 *)
GetStats ==
    /\ variant \in Capped
    /\ response' =
         [status |-> 200,
          body |-> [totalMessages |-> Len(messages),
                    oldestMessage |-> IF Len(messages) > 0
                                      THEN messages[Len(messages)].timestamp
                                      ELSE <<>>,
                    newestMessage |-> IF Len(messages) > 0
                                      THEN messages[1].timestamp ELSE <<>>]]
    /\ UNCHANGED <<variant, messages, uploadDir, uuid, now, sent, deleted,
                   clientVars>>

(* GET /api/health of server.js, GET / of part_000, GET /health of part_001 *)
GetHealth ==
    /\ response' = [status |-> 200,
                    body |-> IF variant = "part_001" THEN [status |-> "ok"]
                             ELSE [status |-> "ok",
                                   totalMessages |-> Len(messages)]]
    /\ UNCHANGED <<variant, messages, uploadDir, uuid, now, sent, deleted,
                   clientVars>>

(* GET /messages of part_001 *)
GetMessages ==
    /\ variant = "part_001"
    /\ response' = [status |-> 200,
                    body |-> [success |-> TRUE, messages |-> messages]]
    /\ UNCHANGED <<variant, messages, uploadDir, uuid, now, sent, deleted,
                   clientVars>>

(* POST /messages of part_001 *)
PostMessages(body, from) ==
    /\ variant = "part_001"
    /\ IF ~Truthy(body)
       THEN /\ response' = Err(400)
            /\ UNCHANGED <<messages, uuid, now, sent>>
       ELSE IF ~IsString(body)
       THEN \* body.trim is not a function: the default handler answers 500
            /\ response' = Err(500)
            /\ UNCHANGED <<messages, uuid, now, sent>>
       ELSE IF ~(Len(Trim(body.val)) > 0)
       THEN /\ response' = Err(400)
            /\ UNCHANGED <<messages, uuid, now, sent>>
       ELSE \E t \in ClockReads :
            /\ uuid < MaxUuid
            /\ LET message ==
                      [id |-> uuid + 1,
                       from |-> Trim(IF Truthy(from) THEN from.val
                                     ELSE <<"j", "i", "b", "u", "n">>),
                       body |-> Trim(body.val),
                       sentAt |-> ToISOString(t)]
               IN /\ messages' = Push(messages, message)
                  /\ sent' = Append(sent, message.id)
                  /\ response' = [status |-> 201,
                                  body |-> [success |-> TRUE,
                                            message |-> message]]
            /\ uuid' = uuid + 1
            /\ now' = t
    /\ UNCHANGED <<variant, uploadDir, deleted, clientVars>>

(* DELETE /messages/:id of part_001 *)
DeleteMessage(id) ==
    /\ variant = "part_001"
    /\ LET before == Len(messages)
           after == FilterNotId(messages, id)
       IN /\ messages' = after
          /\ IF Len(after) = before
             THEN /\ response' = Err(404)
                  /\ UNCHANGED deleted
             ELSE /\ response' = [status |-> 200, body |-> [success |-> TRUE]]
                  /\ deleted' = TRUE
    /\ UNCHANGED <<variant, uploadDir, uuid, now, sent, clientVars>>

Next ==
    \/ RateLimited
    \/ \E m \in Texts : PostApiMessages(m)
    \/ \E f \in Files, m \in UploadTexts : PostUpload(f, m)
    \/ \E q \in Queries : GetApiMessages(q[1], q[2], q[3])
    \/ \E id \in Ids : DeleteApiMessage(id)
    \/ GetStats
    \/ GetHealth
    \/ GetMessages
    \/ \E b \in Texts, f \in Froms : PostMessages(b, f)
    \/ \E id \in Ids : DeleteMessage(id)

Spec == Init /\ [][Next]_vars

-----------------------------------------------------------------------------
(* A client of server.js that polls GET /api/messages with `since` set to   *)
(* the newest timestamp it has received (no `since` before the first         *)
(* message), default limit and offset.                                       *)

IdSeq(arr) == [i \in 1..Len(arr) |-> arr[i].id]

Poll ==
    /\ variant = "server"
    /\ LET body == ListBody(Undefined, Undefined, since)
       IN /\ response' = [status |-> 200, body |-> body]
          /\ received' = received \o IdSeq(body.messages)
          /\ since' = IF Len(body.messages) > 0
                      THEN Str(body.messages[1].timestamp) ELSE since
    /\ UNCHANGED <<variant, messages, uploadDir, uuid, now, sent, deleted>>

InitPoll == Init /\ variant = "server"

NextPoll ==
    \/ \E m \in Texts : PostApiMessages(m)
    \/ \E id \in Ids : DeleteApiMessage(id)
    \/ Poll

SpecPoll == InitPoll /\ [][NextPoll]_vars

-----------------------------------------------------------------------------
(* Properties *)

IsBlank(s) == Trim(s) = <<>>
BlankTexts == { <<>>, <<" ">>, <<" ", "\t", " ">> }

IsSend(m) ==
    PostApiMessages(Str(m)) \/ \E f \in Froms : PostMessages(Str(m), f)

Reverse(seq) == [i \in 1..Len(seq) |-> seq[Len(seq) + 1 - i]]
Last(seq) == seq[Len(seq)]
RemoveAt(arr, i) == SubSeq(arr, 1, i - 1) \o SubSeq(arr, i + 1, Len(arr))
IsListResponse == response.status = 200 /\ "messages" \in DOMAIN response.body
RECURSIVE IsSubsequence(_, _)
IsSubsequence(page, arr) ==
    IF page = <<>> THEN TRUE
    ELSE IF arr = <<>> THEN FALSE
    ELSE IF Head(page) = Head(arr) THEN IsSubsequence(Tail(page), Tail(arr))
    ELSE IsSubsequence(page, Tail(arr))

(* C1: in every variant a send whose text is blank (empty or whitespace     *)
(* only) is answered 400 and leaves the stored list unchanged, and no       *)
(* message sent as text is ever stored with an empty body.                   *)
C1_BlankSendRejected ==
    /\ [][\A m \in BlankTexts :
            IsSend(m) => response'.status = 400 /\ messages' = messages]_vars
    /\ [](\A i \in 1..Len(messages) :
            ~HasFile(messages[i]) => Len(BodyOf(messages[i])) > 0)

(* C2 as claimed: with no successful DELETE so far, the stored list that    *)
(* the list endpoint returns is the successful sends in append order.        *)
C2_HistoryIsAppendOrder == ~deleted => IdSeq(messages) = sent

(* C2 as amended: with no successful DELETE so far, part_001 stores and     *)
(* returns exactly the successful sends in append order; server.js and      *)
(* part_000 store the MAX_MESSAGES most recent of them, newest first, and    *)
(* GET /api/messages returns messages of that list, in the list's order.     *)
C2_HistoryOrder ==
    /\ ~deleted =>
          IdSeq(messages) = IF variant = "part_001" THEN sent
                            ELSE Slice(Reverse(sent), 0, MAX_MESSAGES)
    /\ IsListResponse =>
          IF variant = "part_001" THEN response.body.messages = messages
          ELSE IsSubsequence(response.body.messages, messages)

C2_Witness ==
    /\ ~deleted /\ Len(sent) > MAX_MESSAGES /\ variant = "server"
    /\ IsListResponse /\ Len(response.body.messages) = MAX_MESSAGES
    /\ response.body.messages = messages

(* C3: a DELETE for an id that is not stored answers 404 with an error body *)
(* and leaves the stored list as it was, in server.js and in part_001.       *)
C3_DeleteUnknown ==
    [][\A id \in Ids :
         (id \notin IdsOf(messages) /\ (DeleteApiMessage(id) \/ DeleteMessage(id)))
         => /\ response'.status = 404
            /\ "error" \in DOMAIN response'.body
            /\ messages' = messages]_vars

C3_Witness ==
    /\ response.status = 404
    /\ Len(messages) >= MAX_MESSAGES

(* C4: a stored message keeps its id, body text and timestamp for as long   *)
(* as it stays in the list.                                                  *)
C4_Immutable ==
    [][\A i \in 1..Len(messages), j \in 1..Len(messages') :
         messages'[j].id = messages[i].id
         => /\ BodyOf(messages'[j]) = BodyOf(messages[i])
            /\ StampOf(messages'[j]) = StampOf(messages[i])]_vars

C4_Witness ==
    /\ deleted /\ Len(messages) >= 2
    /\ StampOf(messages[1]) # StampOf(messages[2])

(* C5: GET list, GET stats and GET health leave the stored list unchanged.  *)
C5_ReadsKeepList ==
    [][(\/ \E q \in Queries : GetApiMessages(q[1], q[2], q[3])
        \/ GetStats \/ GetHealth \/ GetMessages)
       => messages' = messages]_vars

C5_Witness ==
    /\ IsListResponse /\ Len(messages) >= 2
    /\ Len(response.body.messages) = 1

(* C6: in the capped variants the list never holds more than MAX_MESSAGES   *)
(* messages, and a send that pushes it over the cap keeps exactly the       *)
(* MAX_MESSAGES most recently sent of the stored messages and the new one,   *)
(* newest first: only the oldest are evicted.                                *)
C6_Capped ==
    /\ [](variant \in Capped => Len(messages) <= MAX_MESSAGES)
    /\ [][(variant \in Capped /\ Len(messages) = MAX_MESSAGES
           /\ Len(sent') > Len(sent))
          => LET all == IdsOf(messages) \cup {Last(sent')}
                 kept == IdsOf(messages')
             IN /\ Len(messages') = MAX_MESSAGES
                /\ kept \subseteq all
                /\ messages'[1].id = Last(sent')
                /\ \A k \in all \ kept : \A j \in kept : k < j
                /\ \A i \in 1..(Len(messages') - 1) :
                      messages'[i].id > messages'[i + 1].id]_vars

C6_Witness ==
    /\ variant \in Capped
    /\ Len(sent) > MAX_MESSAGES /\ Len(messages) = MAX_MESSAGES

(* C7: whenever a message that carries an uploaded file leaves the stored   *)
(* list, by DELETE or by eviction over the cap, its file is no longer in     *)
(* the upload directory.                                                     *)
C7_FilesFollowMessages ==
    [][\A i \in 1..Len(messages) :
         (HasFile(messages[i]) /\ messages[i].id \notin IdsOf(messages'))
         => messages[i].file.filename \notin uploadDir']_vars

(* C8: a successful DELETE of an id removes exactly the stored message with *)
(* that id; the others stay, in the same order.                              *)
C8_DeleteRemovesOne ==
    [][\A id \in Ids :
         (id \in IdsOf(messages) /\ (DeleteApiMessage(id) \/ DeleteMessage(id)))
         => /\ response'.status = 200
            /\ id \notin IdsOf(messages')
            /\ \E i \in 1..Len(messages) :
                  messages[i].id = id /\ messages' = RemoveAt(messages, i)]_vars

C8_Witness ==
    /\ deleted /\ response.status = 200 /\ "success" \in DOMAIN response.body
    /\ Len(messages) >= 1 /\ Len(sent) >= 3

(* C9: the polling client ends up with every stored message exactly once.   *)
(* Later polls only return messages newer than `since`, which never goes     *)
(* back, so a stored message at or before `since` that the client does not   *)
(* hold is never delivered.                                                  *)
C9_PollReceivesAll ==
    /\ \A i \in 1..Len(messages) :
          (Truthy(since)
           /\ ~DateGreater(DateParse(messages[i].timestamp), DateParse(since.val)))
          => \E k \in 1..Len(received) : received[k] = messages[i].id
    /\ \A k, l \in 1..Len(received) : received[k] = received[l] => k = l

=============================================================================
